---- MODULE Spec2Model ----
(***************************************************************************)
(* A model of Cesium's ParticleSystem                                      *)
(* (packages/engine/Source/Scene/ParticleSystem.js): the per-frame update  *)
(* cycle, the emission scheduler (rate with fractional carry-over, bursts),*)
(* the particle pool and the billboard collection it keeps in step.        *)
(*                                                                         *)
(* Times are integers counting ticks of 1/TicksPerSecond seconds.  The     *)
(* emission rate is in particles per second, so dt * emissionRate counts   *)
(* particles in units of 1/TicksPerSecond; carryOver uses the same unit    *)
(* (carryOver = TicksPerSecond is the code's 1.0).  Positions, velocities, *)
(* and colours are left out: no operation modelled here reads them.  A      *)
(* matrix is the upper-left 2 x 2 block of the Matrix4, <<m11, m12, m21,   *)
(* m22>> with integer entries.                                             *)
(***************************************************************************)
EXTENDS Integers, Sequences, FiniteSets, TLC

(* ----------------------------- bounds ---------------------------------- *)

\* Ticks per second: the resolution of every time in the model.
TicksPerSecond == 2

\* Frame times handed to update range over 0..MaxTime (ticks).
MaxTime == 3

\* update is not taken once the frame deltas it has consumed sum to more.
MaxElapsed == 6

\* update is not taken once the complete event has been raised this often.
MaxRaised == 2

(* ------------------------ program constants ---------------------------- *)

\* Number.MAX_VALUE, the default lifetime ("never ends").
MaxValue == 1000

\* The periodic shrink runs when frameNumber % 120 === 0.
ShrinkPeriod == 120

\* _previousTime = undefined.
NoTime == -1

\* particle._billboard = undefined.
NoBillboard == 0

(* ------------------------------ state ---------------------------------- *)

VARIABLES
    show,                  \* this.show
    loop,                  \* this.loop
    emitter,               \* defined(this._emitter)
    bursts,                \* this._bursts: <<[time, minimum, maximum, complete]>>
    emissionRate,          \* this._emissionRate (particles per second)
    minimumParticleLife,   \* this._minimumParticleLife (ticks)
    maximumParticleLife,   \* this._maximumParticleLife (ticks)
    lifetime,              \* this._lifetime (ticks, or MaxValue)
    billboardCollection,   \* this._billboardCollection: [defined, show: id -> BOOLEAN]
    particles,             \* this._particles: <<[id, age, life, normalizedAge, billboard]>>
    particlePool,          \* this._particlePool
    previousTime,          \* this._previousTime (NoTime: undefined)
    currentTime,           \* this._currentTime
    carryOver,             \* this._carryOver, in 1/TicksPerSecond particles
    isComplete,            \* this._isComplete
    updateParticlePool,    \* this._updateParticlePool
    particleEstimate,      \* this._particleEstimate
    destroyed,             \* destroyObject(this) has run
    modelMatrix,           \* this._modelMatrix
    emitterModelMatrix,    \* this._emitterModelMatrix
    matrixDirty,           \* this._matrixDirty
    combinedMatrix,        \* this._combinedMatrix
    \* the environment
    debug,                 \* pragmas.debug: the build keeps the 'debug' blocks
    frameDelta,            \* the frame driver's fixed step (0: it has none)
    \* what an observer of the system has seen so far
    lastOp,                \* the operation that ran last
    lastFrame,             \* frameState.frameNumber of the last update call
    raised,                \* how often the complete event was raised
    emitted,               \* how many particles were added to the live array
    fired,                 \* per burst: how often it fired
    totalDt,               \* the sum of the frame deltas dt of all updates
    dtWrapped,             \* some update's dt was changed by the wrap modulo lifetime
    wraps,                 \* how often elapsed time wrapped
    cycleFired,            \* per burst: how often it fired since the last wrap
    lastCycleFired,        \* per burst: how often it fired in the cycle the last wrap ended
    constructed,           \* how many particles emission had to construct
    assigned,              \* how many property assignments have been made
    multiplied,            \* how often the two matrices were multiplied
    transformedBy,         \* the matrix the last emission transformed by
    \* what the frame driver of SpecHide notes of its own calls
    lastTime,              \* frameState.time of the last update call
    shownTime,             \* ... of the last update call made while shown
    hiddenTime,            \* ... of the last one made while hidden, since then
    resumed,               \* the last update call was the first after such calls
    calls                  \* how many update calls were made, up to MaxCalls

vars == <<show, loop, emitter, bursts, emissionRate, minimumParticleLife,
          maximumParticleLife, lifetime, billboardCollection, particles,
          particlePool, previousTime, currentTime, carryOver, isComplete,
          updateParticlePool, particleEstimate, lastOp, lastFrame, raised,
          emitted, fired, totalDt, dtWrapped, wraps, cycleFired, lastCycleFired,
          destroyed, debug, frameDelta, constructed, assigned, modelMatrix,
          emitterModelMatrix, matrixDirty, combinedMatrix, multiplied,
          transformedBy, lastTime, shownTime, hiddenTime, resumed, calls>>

\* The system as one record, the form the operations below work on.
Sys ==
    [show |-> show, loop |-> loop, emitter |-> emitter, bursts |-> bursts,
     emissionRate |-> emissionRate,
     minimumParticleLife |-> minimumParticleLife,
     maximumParticleLife |-> maximumParticleLife, lifetime |-> lifetime,
     billboardCollection |-> billboardCollection, particles |-> particles,
     particlePool |-> particlePool, previousTime |-> previousTime,
     currentTime |-> currentTime, carryOver |-> carryOver,
     isComplete |-> isComplete, updateParticlePool |-> updateParticlePool,
     particleEstimate |-> particleEstimate, lastOp |-> lastOp,
     lastFrame |-> lastFrame, raised |-> raised, emitted |-> emitted,
     fired |-> fired, totalDt |-> totalDt, dtWrapped |-> dtWrapped,
     wraps |-> wraps, cycleFired |-> cycleFired,
     lastCycleFired |-> lastCycleFired, destroyed |-> destroyed,
     debug |-> debug, frameDelta |-> frameDelta, constructed |-> constructed,
     assigned |-> assigned, modelMatrix |-> modelMatrix,
     emitterModelMatrix |-> emitterModelMatrix, matrixDirty |-> matrixDirty,
     combinedMatrix |-> combinedMatrix, multiplied |-> multiplied,
     transformedBy |-> transformedBy, lastTime |-> lastTime,
     shownTime |-> shownTime, hiddenTime |-> hiddenTime, resumed |-> resumed,
     calls |-> calls]

\* The next state is the record s.
Becomes(s) ==
    /\ show' = s.show
    /\ loop' = s.loop
    /\ emitter' = s.emitter
    /\ bursts' = s.bursts
    /\ emissionRate' = s.emissionRate
    /\ minimumParticleLife' = s.minimumParticleLife
    /\ maximumParticleLife' = s.maximumParticleLife
    /\ lifetime' = s.lifetime
    /\ billboardCollection' = s.billboardCollection
    /\ particles' = s.particles
    /\ particlePool' = s.particlePool
    /\ previousTime' = s.previousTime
    /\ currentTime' = s.currentTime
    /\ carryOver' = s.carryOver
    /\ isComplete' = s.isComplete
    /\ updateParticlePool' = s.updateParticlePool
    /\ particleEstimate' = s.particleEstimate
    /\ lastOp' = s.lastOp
    /\ lastFrame' = s.lastFrame
    /\ raised' = s.raised
    /\ emitted' = s.emitted
    /\ fired' = s.fired
    /\ totalDt' = s.totalDt
    /\ dtWrapped' = s.dtWrapped
    /\ wraps' = s.wraps
    /\ cycleFired' = s.cycleFired
    /\ lastCycleFired' = s.lastCycleFired
    /\ destroyed' = s.destroyed
    /\ debug' = s.debug
    /\ frameDelta' = s.frameDelta
    /\ constructed' = s.constructed
    /\ assigned' = s.assigned
    /\ modelMatrix' = s.modelMatrix
    /\ emitterModelMatrix' = s.emitterModelMatrix
    /\ matrixDirty' = s.matrixDirty
    /\ combinedMatrix' = s.combinedMatrix
    /\ multiplied' = s.multiplied
    /\ transformedBy' = s.transformedBy
    /\ lastTime' = s.lastTime
    /\ shownTime' = s.shownTime
    /\ hiddenTime' = s.hiddenTime
    /\ resumed' = s.resumed
    /\ calls' = s.calls

(* ----------------------------- helpers --------------------------------- *)

Max(a, b) == IF a >= b THEN a ELSE b

\* Math.ceil(n / d) for n >= 0, d > 0.
CeilDiv(n, d) == (n + d - 1) \div d

\* CesiumMath.mod(m, n) for m >= 0, n > 0: m wrapped into [0, n).
Mod(m, n) == m % n

\* JulianDate.secondsDifference(left, right), in ticks.
SecondsDifference(left, right) == left - right

\* The values CesiumMath.randomBetween(minimum, maximum) can return.
RandomBetween(minimum, maximum) ==
    IF minimum <= maximum THEN minimum..maximum ELSE maximum..minimum

\* The smallest positive integer not in used: the identity of a new object.
Fresh(used) == CHOOSE n \in 1..(Cardinality(used) + 1) : n \notin used

SeqSum(q) ==
    LET RECURSIVE sum(_)
        sum(i) == IF i = 0 THEN 0 ELSE q[i] + sum(i - 1)
    IN  sum(Len(q))

Zeros(q) == [i \in DOMAIN q |-> 0]

(* ------------------- particles and the billboard sink ------------------ *)

\* The greatest common divisor of a >= 0 and b >= 0.
Gcd(a, b) ==
    LET RECURSIVE gcd(_, _)
        gcd(x, y) == IF y = 0 THEN x ELSE gcd(y, x % y)
    IN  gcd(a, b)

\* The number num/den (num >= 0, den > 0) as a pair in lowest terms;
\* normalizedAge is one.
Fraction(num, den) == <<num \div Gcd(num, den), den \div Gcd(num, den)>>

\* new Particle(): age 0, normalizedAge 0, life Number.MAX_VALUE, no billboard.
NewParticle(id) ==
    [id |-> id, age |-> 0, life |-> MaxValue,
     normalizedAge |-> Fraction(0, 1), billboard |-> NoBillboard]

\* The identities of the particles the system holds.
ParticleIds(s) ==
    {s.particles[i].id : i \in DOMAIN s.particles}
        \cup {s.particlePool[i].id : i \in DOMAIN s.particlePool}

\* The handles of the entries in the billboard collection.
BillboardIds(s) == DOMAIN s.billboardCollection.show

\* billboardCollection.add({show: visible}) returning handle id.
BillboardAdd(s, id, visible) ==
    [s EXCEPT !.billboardCollection.show = (id :> visible) @@ @]

\* billboardCollection.remove(billboard).
BillboardRemove(s, id) ==
    [s EXCEPT !.billboardCollection.show =
        [b \in (DOMAIN @) \ {id} |-> @[b]]]

\* billboard.show = visible, on the entry (if the collection still holds it).
BillboardShow(s, id, visible) ==
    IF id \in BillboardIds(s)
    THEN [s EXCEPT !.billboardCollection.show[id] = visible]
    ELSE s

\* Particle.prototype.update(dt): age the particle; alive iff age <= life.
ParticleUpdate(p, dt) ==
    LET age == p.age + dt
    IN  IF age > p.life
        THEN [particle |-> [p EXCEPT !.age = age], alive |-> FALSE]
        ELSE [particle |-> [p EXCEPT !.age = age,
                                     !.normalizedAge =
                                         IF age >= p.life THEN Fraction(1, 1)
                                         ELSE Fraction(age, p.life)],
              alive |-> TRUE]

\* UpdateParticlePool that rounds the estimate down.
UpdateParticlePoolRoundsDown(s) ==
    LET burstAmount == SeqSum([i \in DOMAIN s.bursts |-> s.bursts[i].maximum])
        estimate ==
            (s.emissionRate * s.maximumParticleLife
                 + burstAmount * TicksPerSecond) \div TicksPerSecond
        numToAdd ==
            Max(estimate - Len(s.particles) - Len(s.particlePool), 0)
        RECURSIVE add(_, _)
        add(t, j) ==
            IF j >= numToAdd THEN t
            ELSE LET b == Fresh(BillboardIds(t))
                     p == [NewParticle(Fresh(ParticleIds(t)))
                              EXCEPT !.billboard = b]
                 IN  add([BillboardAdd(t, b, FALSE)
                             EXCEPT !.particlePool = Append(@, p)], j + 1)
    IN  [add(s, 0) EXCEPT !.particleEstimate = estimate]

\* UpdateParticlePool that adds the pool's billboards without show: false.
UpdateParticlePoolAddsShown(s) ==
    LET burstAmount == SeqSum([i \in DOMAIN s.bursts |-> s.bursts[i].maximum])
        estimate ==
            CeilDiv(s.emissionRate * s.maximumParticleLife
                        + burstAmount * TicksPerSecond, TicksPerSecond)
        numToAdd ==
            Max(estimate - Len(s.particles) - Len(s.particlePool), 0)
        RECURSIVE add(_, _)
        add(t, j) ==
            IF j >= numToAdd THEN t
            ELSE LET b == Fresh(BillboardIds(t))
                     p == [NewParticle(Fresh(ParticleIds(t)))
                              EXCEPT !.billboard = b]
                 IN  add([BillboardAdd(t, b, TRUE)
                             EXCEPT !.particlePool = Append(@, p)], j + 1)
    IN  [add(s, 0) EXCEPT !.particleEstimate = estimate]

\* updateParticlePool(system): recompute the estimate and pre-allocate.
UpdateParticlePool(s) ==
    LET burstAmount == SeqSum([i \in DOMAIN s.bursts |-> s.bursts[i].maximum])
        estimate ==
            CeilDiv(s.emissionRate * s.maximumParticleLife
                        + burstAmount * TicksPerSecond, TicksPerSecond)
        numToAdd ==
            Max(estimate - Len(s.particles) - Len(s.particlePool), 0)
        RECURSIVE add(_, _)
        add(t, j) ==
            IF j >= numToAdd THEN t
            ELSE LET b == Fresh(BillboardIds(t))
                     p == [NewParticle(Fresh(ParticleIds(t)))
                              EXCEPT !.billboard = b]
                 IN  add([BillboardAdd(t, b, FALSE)
                             EXCEPT !.particlePool = Append(@, p)], j + 1)
    IN  [add(s, 0) EXCEPT !.particleEstimate = estimate]

\* GetOrCreateParticle that never looks in the pool.
GetOrCreateParticleAlwaysNew(s) ==
    [sys |-> [s EXCEPT !.constructed = @ + 1],
     particle |-> NewParticle(Fresh(ParticleIds(s)))]

\* GetOrCreateParticle that leaves the particle it hands out in the pool.
GetOrCreateParticleKeepsPooled(s) ==
    IF Len(s.particlePool) > 0
    THEN [sys |-> s, particle |-> s.particlePool[Len(s.particlePool)]]
    ELSE [sys |-> [s EXCEPT !.constructed = @ + 1],
          particle |-> NewParticle(Fresh(ParticleIds(s)))]

\* getOrCreateParticle(system): pop the pool, else construct.
GetOrCreateParticle(s) ==
    IF Len(s.particlePool) > 0
    THEN [sys |-> [s EXCEPT !.particlePool = SubSeq(@, 1, Len(@) - 1)],
          particle |-> s.particlePool[Len(s.particlePool)]]
    ELSE [sys |-> [s EXCEPT !.constructed = @ + 1],
          particle |-> NewParticle(Fresh(ParticleIds(s)))]

\* addParticleToPool(system, particle).
AddParticleToPool(s, p) == [s EXCEPT !.particlePool = Append(@, p)]

\* FreeParticlePool that releases the pool's surplus over the estimate.
FreeParticlePoolTrimsSurplus(s) ==
    LET numParticles == Len(s.particles)
        numInPool == Len(s.particlePool)
        estimate == s.particleEstimate
        start == numInPool - Max(numParticles + numInPool
                                     - Max(estimate, numParticles), 0)
        RECURSIVE free(_, _)
        free(t, i) ==
            IF i >= numInPool THEN t
            ELSE free(BillboardRemove(t, s.particlePool[i + 1].billboard),
                      i + 1)
    IN  [free(s, start) EXCEPT !.particlePool = SubSeq(@, 1, start)]

\* freeParticlePool(system): the periodic shrink.
FreeParticlePool(s) ==
    LET numParticles == Len(s.particles)
        numInPool == Len(s.particlePool)
        estimate == s.particleEstimate
        start == numInPool - Max(estimate - numParticles - numInPool, 0)
        RECURSIVE free(_, _)
        free(t, i) ==
            IF i >= numInPool THEN t
            ELSE free(IF i >= 0
                      THEN BillboardRemove(t, s.particlePool[i + 1].billboard)
                      ELSE t, i + 1)
    IN  [free(s, start) EXCEPT !.particlePool = SubSeq(@, 1, start)]

\* RemoveBillboard that leaves the billboard as it is.
RemoveBillboardKeepsShown(s, p) == s

\* removeBillboard(particle): hide it.
RemoveBillboard(s, p) ==
    IF p.billboard # NoBillboard THEN BillboardShow(s, p.billboard, FALSE) ELSE s

\* UpdateBillboard that adds a billboard whether the particle has one or not.
UpdateBillboardAlwaysAdds(s, p) ==
    LET b == Fresh(BillboardIds(s))
    IN  [sys |-> BillboardAdd(s, b, TRUE),
         particle |-> [p EXCEPT !.billboard = b]]

\* updateBillboard(system, particle): give it a billboard if it has none, show it.
\* Yields the system and the particle (now holding its billboard).
UpdateBillboard(s, p) ==
    IF p.billboard = NoBillboard
    THEN LET b == Fresh(BillboardIds(s))
         IN  [sys |-> BillboardAdd(s, b, TRUE),
              particle |-> [p EXCEPT !.billboard = b]]
    ELSE [sys |-> BillboardShow(s, p.billboard, TRUE), particle |-> p]

\* AddParticle without the reset of age and normalizedAge.
AddParticleKeepsAge(s, p, life) ==
    [s EXCEPT !.particles = Append(@, [p EXCEPT !.life = life]),
              !.emitted = @ + 1]

\* addParticle(system, particle): initialise it and push it on the live array.
AddParticle(s, p, life) ==
    [s EXCEPT !.particles =
                  Append(@, [p EXCEPT !.life = life, !.age = 0,
                                      !.normalizedAge = Fraction(0, 1)]),
              !.emitted = @ + 1]

(* ------------------------------ matrices ------------------------------- *)

\* Matrix4.IDENTITY.
IDENTITY == <<1, 0, 0, 1>>

\* new Matrix4(): every element 0.
ZeroMatrix == <<0, 0, 0, 0>>

\* Matrix4.multiply(left, right, result): the matrix product left * right.
Matrix4Multiply(left, right) ==
    <<left[1] * right[1] + left[2] * right[3],
      left[1] * right[2] + left[2] * right[4],
      left[3] * right[1] + left[4] * right[3],
      left[3] * right[2] + left[4] * right[4]>>

\* Matrix4.equals(left, right): equal element by element.
Matrix4Equals(left, right) == \A k \in 1..4 : left[k] = right[k]

\* update, lines 756-763: the combined matrix, recomputed when dirty.
CombineMatrices(s) ==
    IF s.matrixDirty
    THEN [s EXCEPT !.combinedMatrix =
                       Matrix4Multiply(s.modelMatrix, s.emitterModelMatrix),
                   !.matrixDirty = FALSE,
                   !.multiplied = @ + 1]
    ELSE s

(* ------------------------- emission scheduler -------------------------- *)

\* RateEmission without the carry-over: the fraction of a particle is dropped.
RateEmissionTruncated(s, dt) ==
    [numToEmit |-> (dt * s.emissionRate) \div TicksPerSecond,
     carryOver |-> s.carryOver]

\* calculateNumberToEmit, lines 672-681: the rate-based count for a frame of
\* dt ticks, and the carry-over it leaves.
RateEmission(s, dt) ==
    LET v == dt * s.emissionRate
        whole == v \div TicksPerSecond
        carry == s.carryOver + (v - whole * TicksPerSecond)
    IN  IF carry > TicksPerSecond
        THEN [numToEmit |-> whole + 1, carryOver |-> carry - TicksPerSecond]
        ELSE [numToEmit |-> whole, carryOver |-> carry]

\* BurstDue that does not look at the burst's fired flag.
BurstDueIgnoresComplete(s, i) == s.currentTime > s.bursts[i].time

\* BurstDue with >= for >: the burst fires at its trigger time already.
BurstDueAtTriggerTime(s, i) ==
    ~s.bursts[i].complete /\ s.currentTime >= s.bursts[i].time

\* calculateNumberToEmit, line 689: burst i fires in this frame.
BurstDue(s, i) == ~s.bursts[i].complete /\ s.currentTime > s.bursts[i].time

\* ApplyBursts without burst._complete = true: a due burst stays due.
ApplyBurstsUnmarked(s, amount) ==
    LET due == {i \in DOMAIN s.bursts : BurstDue(s, i)}
    IN  [sys |-> [s EXCEPT
                    !.fired = [i \in DOMAIN @ |->
                                   IF i \in due THEN @[i] + 1 ELSE @[i]],
                    !.cycleFired = [i \in DOMAIN @ |->
                                   IF i \in due THEN @[i] + 1 ELSE @[i]]],
         numToEmit |-> SeqSum([i \in DOMAIN s.bursts |->
                                   IF i \in due THEN amount[i] ELSE 0])]

\* calculateNumberToEmit, lines 683-694: fire the due bursts; amount[i] is the
\* value randomBetween returns for burst i.
ApplyBursts(s, amount) ==
    LET due == {i \in DOMAIN s.bursts : BurstDue(s, i)}
    IN  [sys |-> [s EXCEPT
                    !.bursts = [i \in DOMAIN @ |->
                                   IF i \in due THEN [@[i] EXCEPT !.complete = TRUE]
                                   ELSE @[i]],
                    !.fired = [i \in DOMAIN @ |->
                                   IF i \in due THEN @[i] + 1 ELSE @[i]],
                    !.cycleFired = [i \in DOMAIN @ |->
                                   IF i \in due THEN @[i] + 1 ELSE @[i]]],
         numToEmit |-> SeqSum([i \in DOMAIN s.bursts |->
                                   IF i \in due THEN amount[i] ELSE 0])]

\* CalculateNumberToEmit without the early return of a completed system.
CalculateNumberToEmitWhenComplete(s, dt, amount) ==
    LET wrapped == Mod(dt, s.lifetime)
        rate == RateEmission(s, wrapped)
        burst == ApplyBursts([s EXCEPT !.carryOver = rate.carryOver,
                                       !.dtWrapped = @ \/ wrapped # dt],
                             amount)
    IN  [sys |-> burst.sys,
         numToEmit |-> rate.numToEmit + burst.numToEmit]

\* calculateNumberToEmit(system, dt): the system afterwards and the count.
CalculateNumberToEmit(s, dt, amount) ==
    IF s.isComplete THEN [sys |-> s, numToEmit |-> 0]
    ELSE LET wrapped == Mod(dt, s.lifetime)
             rate == RateEmission(s, wrapped)
             burst == ApplyBursts([s EXCEPT !.carryOver = rate.carryOver,
                                            !.dtWrapped = @ \/ wrapped # dt],
                                  amount)
         IN  [sys |-> burst.sys,
              numToEmit |-> rate.numToEmit + burst.numToEmit]

(* ------------------------------ update --------------------------------- *)

\* FrameDelta without the clamp of a negative delta.
FrameDeltaUnclamped(s, time) ==
    IF s.previousTime # NoTime
    THEN SecondsDifference(time, s.previousTime) ELSE 0

\* FrameDelta that takes the distance between the two frame times.
FrameDeltaAbsolute(s, time) ==
    LET dt == IF s.previousTime # NoTime
              THEN SecondsDifference(time, s.previousTime) ELSE 0
    IN  IF dt < 0 THEN -dt ELSE dt

\* FrameDelta that measures the first frame's delta from time 0.
FrameDeltaFromEpoch(s, time) ==
    LET dt == IF s.previousTime # NoTime
              THEN SecondsDifference(time, s.previousTime) ELSE time
    IN  IF dt < 0 THEN 0 ELSE dt

\* update, lines 718-726: the frame delta, clamped at 0.
FrameDelta(s, time) ==
    LET dt == IF s.previousTime # NoTime
              THEN SecondsDifference(time, s.previousTime) ELSE 0
    IN  IF dt < 0 THEN 0 ELSE dt

\* SimulateParticles that leaves a dead particle in the live array.
SimulateParticlesKeepsDead(s, dt) ==
    LET RECURSIVE step(_, _, _, _)
        step(t, ps, i, length) ==
            IF i > length
            THEN [t EXCEPT !.particles = SubSeq(ps, 1, length)]
            ELSE LET r == ParticleUpdate(ps[i], dt)
                     u == UpdateBillboard(t, r.particle)
                 IN  step(u.sys, [ps EXCEPT ![i] = u.particle], i + 1, length)
    IN  step(s, s.particles, 1, Len(s.particles))

\* SimulateParticles that drops a dead particle instead of pooling it.
SimulateParticlesDropsDead(s, dt) ==
    LET RECURSIVE step(_, _, _, _)
        step(t, ps, i, length) ==
            IF i > length
            THEN [t EXCEPT !.particles = SubSeq(ps, 1, length)]
            ELSE LET r == ParticleUpdate(ps[i], dt)
                 IN  IF ~r.alive
                     THEN step(RemoveBillboard(t, r.particle),
                               [ps EXCEPT ![i] = ps[length]], i, length - 1)
                     ELSE LET u == UpdateBillboard(t, r.particle)
                          IN  step(u.sys, [ps EXCEPT ![i] = u.particle],
                                   i + 1, length)
    IN  step(s, s.particles, 1, Len(s.particles))

\* SimulateParticles that moves on after a removal (no --i): the particle
\* swapped into the freed slot is passed over.
SimulateParticlesSkipsSwapped(s, dt) ==
    LET RECURSIVE step(_, _, _, _)
        step(t, ps, i, length) ==
            IF i > length
            THEN [t EXCEPT !.particles = SubSeq(ps, 1, length)]
            ELSE LET r == ParticleUpdate(ps[i], dt)
                 IN  IF ~r.alive
                     THEN step(AddParticleToPool(RemoveBillboard(t, r.particle),
                                                 r.particle),
                               [ps EXCEPT ![i] = ps[length]], i + 1, length - 1)
                     ELSE LET u == UpdateBillboard(t, r.particle)
                          IN  step(u.sys, [ps EXCEPT ![i] = u.particle],
                                   i + 1, length)
    IN  step(s, s.particles, 1, Len(s.particles))

\* update, lines 735-750: age every live particle; retire the dead ones into
\* the pool with swap-with-last removal.
SimulateParticles(s, dt) ==
    LET RECURSIVE step(_, _, _, _)
        step(t, ps, i, length) ==
            IF i > length
            THEN [t EXCEPT !.particles = SubSeq(ps, 1, length)]
            ELSE LET r == ParticleUpdate(ps[i], dt)
                 IN  IF ~r.alive
                     THEN step(AddParticleToPool(RemoveBillboard(t, r.particle),
                                                 r.particle),
                               [ps EXCEPT ![i] = ps[length]], i, length - 1)
                     ELSE LET u == UpdateBillboard(t, r.particle)
                          IN  step(u.sys, [ps EXCEPT ![i] = u.particle],
                                   i + 1, length)
    IN  step(s, s.particles, 1, Len(s.particles))

\* EmitParticles that does not ask whether there is an emitter.
EmitParticlesWithoutEmitter(s, numToEmit, lives) ==
    LET RECURSIVE emit(_, _)
        emit(t, k) ==
            IF k > numToEmit THEN t
            ELSE LET g == GetOrCreateParticle(t)
                     u == UpdateBillboard(g.sys, g.particle)
                 IN  emit(AddParticle(u.sys, u.particle, lives[k]), k + 1)
        c == CombineMatrices(s)
    IN  IF numToEmit > 0
        THEN emit([c EXCEPT !.transformedBy = c.combinedMatrix], 1)
        ELSE s

\* update, lines 754-805: emit numToEmit particles, each transformed by the
\* combined matrix; lives[k] is the life randomBetween returns for the k-th
\* of them.
EmitParticles(s, numToEmit, lives) ==
    LET RECURSIVE emit(_, _)
        emit(t, k) ==
            IF k > numToEmit THEN t
            ELSE LET g == GetOrCreateParticle(t)
                     u == UpdateBillboard(g.sys, g.particle)
                 IN  emit(AddParticle(u.sys, u.particle, lives[k]), k + 1)
        c == CombineMatrices(s)
    IN  IF numToEmit > 0 /\ s.emitter
        THEN emit([c EXCEPT !.transformedBy = c.combinedMatrix], 1)
        ELSE s

\* WrapTime that takes one lifetime off elapsed time instead of the modulo.
WrapTimeSubtractsOnce(s) ==
    [s EXCEPT !.currentTime = @ - s.lifetime,
              !.bursts = [i \in DOMAIN @ |-> [@[i] EXCEPT !.complete = FALSE]],
              !.wraps = @ + 1,
              !.lastCycleFired = s.cycleFired,
              !.cycleFired = Zeros(@)]

\* WrapTime that also takes a completed system back to active.
WrapTimeResumes(s) ==
    [s EXCEPT !.currentTime = Mod(@, s.lifetime),
              !.bursts = [i \in DOMAIN @ |-> [@[i] EXCEPT !.complete = FALSE]],
              !.wraps = @ + 1,
              !.lastCycleFired = s.cycleFired,
              !.cycleFired = Zeros(@),
              !.isComplete = FALSE]

\* WrapTime without the reset of the bursts' fired flags.
WrapTimeKeepsFlags(s) ==
    [s EXCEPT !.currentTime = Mod(@, s.lifetime),
              !.wraps = @ + 1,
              !.lastCycleFired = s.cycleFired,
              !.cycleFired = Zeros(@)]

\* update, lines 815-823: the loop wrap.
WrapTime(s) ==
    [s EXCEPT !.currentTime = Mod(@, s.lifetime),
              !.bursts = [i \in DOMAIN @ |-> [@[i] EXCEPT !.complete = FALSE]],
              !.wraps = @ + 1,
              !.lastCycleFired = s.cycleFired,
              !.cycleFired = Zeros(@)]

\* update, lines 825-826: completion.
Complete(s) == [s EXCEPT !.isComplete = TRUE, !.raised = @ + 1]

\* update, lines 808-828: record the frame time, advance elapsed time.
AdvanceTime(s, time, dt) ==
    LET t == [s EXCEPT !.previousTime = time, !.currentTime = @ + dt,
                       !.totalDt = @ + dt]
    IN  IF t.lifetime # MaxValue /\ t.currentTime > t.lifetime
        THEN IF t.loop THEN WrapTime(t) ELSE Complete(t)
        ELSE t

\* update, lines 831-833: the periodic shrink.
PeriodicShrink(s, frameNumber) ==
    IF frameNumber % ShrinkPeriod = 0 THEN FreeParticlePool(s) ELSE s

\* update, lines 709-716: create the collection, size the pool when flagged.
PreparePool(s) ==
    LET t == [s EXCEPT !.billboardCollection.defined = TRUE]
    IN  IF t.updateParticlePool
        THEN [UpdateParticlePool(t) EXCEPT !.updateParticlePool = FALSE]
        ELSE t

\* UpdateShown with the emission ahead of the simulation pass.
UpdateShownEmitsFirst(s, time, frameNumber, amount, lives) ==
    LET dt == FrameDelta(s, time)
        c == CalculateNumberToEmit(PreparePool(s), dt, amount)
        emitted_ == EmitParticles(c.sys, c.numToEmit, lives)
        simulated == SimulateParticles(emitted_, dt)
    IN  PeriodicShrink(AdvanceTime(simulated, time, dt), frameNumber)

\* UpdateShown that runs the scheduler only when there is an emitter.
UpdateShownSchedulesWithEmitter(s, time, frameNumber, amount, lives) ==
    LET dt == FrameDelta(s, time)
        simulated == SimulateParticles(PreparePool(s), dt)
        c == IF s.emitter THEN CalculateNumberToEmit(simulated, dt, amount)
             ELSE [sys |-> simulated, numToEmit |-> 0]
        emitted_ == EmitParticles(c.sys, c.numToEmit, lives)
    IN  PeriodicShrink(AdvanceTime(emitted_, time, dt), frameNumber)

\* update, lines 709-833: an update of a shown system.
UpdateShown(s, time, frameNumber, amount, lives) ==
    LET dt == FrameDelta(s, time)
        simulated == SimulateParticles(PreparePool(s), dt)
        c == CalculateNumberToEmit(simulated, dt, amount)
        emitted_ == EmitParticles(c.sys, c.numToEmit, lives)
    IN  PeriodicShrink(AdvanceTime(emitted_, time, dt), frameNumber)

\* UpdateHidden with the frame time recorded before the show check.
UpdateHiddenRecordsTime(s, time, frameNumber) ==
    [s EXCEPT !.previousTime = time]

\* update, lines 705-707: an update of a hidden system returns at once.
UpdateHidden(s, time, frameNumber) == s

\* UpdateSys that pauses the clock of a hidden system: the frame time of a
\* hidden update becomes the time the next delta is measured from.
UpdateSysPausesClock(s, time, frameNumber, amount, lives) ==
    LET t == IF ~s.show
             THEN [s EXCEPT !.previousTime = IF @ = NoTime THEN @ ELSE time]
             ELSE UpdateShown(s, time, frameNumber, amount, lives)
    IN  [t EXCEPT !.lastOp = "update", !.lastFrame = frameNumber]

\* ParticleSystem.prototype.update(frameState).
UpdateSys(s, time, frameNumber, amount, lives) ==
    LET t == IF ~s.show THEN UpdateHidden(s, time, frameNumber)
             ELSE UpdateShown(s, time, frameNumber, amount, lives)
    IN  [t EXCEPT !.lastOp = "update", !.lastFrame = frameNumber]

(* --------------------- property setters and destroy -------------------- *)

\* A DeveloperError is thrown: the call changes nothing.
Throw(s) == [s EXCEPT !.lastOp = "error"]

\* The assignment to the property called name has been made.
Assigned(s, name) == [s EXCEPT !.lastOp = name, !.assigned = @ + 1]

\* EmissionRateSetter without the check of the value.
EmissionRateSetterUnchecked(s, value) ==
    Assigned([s EXCEPT !.emissionRate = value,
                       !.updateParticlePool = TRUE], "emissionRate")

\* The emissionRate setter, lines 300-311.
EmissionRateSetter(s, value) ==
    IF s.debug /\ value < 0 THEN Throw(s)
    ELSE Assigned([s EXCEPT !.emissionRate = value,
                            !.updateParticlePool = TRUE], "emissionRate")

\* The maximumParticleLife setter, lines 369-380.
MaximumParticleLifeSetter(s, value) ==
    IF s.debug /\ value < 0 THEN Throw(s)
    ELSE Assigned([s EXCEPT !.maximumParticleLife = value,
                            !.updateParticlePool = TRUE],
                  "maximumParticleLife")

\* The bursts setter, lines 179-187; the observer starts counting the new
\* bursts' firings.
BurstsSetter(s, value) ==
    Assigned([s EXCEPT !.bursts = value, !.updateParticlePool = TRUE,
                       !.fired = Zeros(value), !.cycleFired = Zeros(value),
                       !.lastCycleFired = Zeros(value)], "bursts")

\* The emitter setter, lines 162-172; value: whether an emitter is assigned
\* (FALSE: undefined).
EmitterSetter(s, value) ==
    IF s.debug /\ ~value THEN Throw(s)
    ELSE Assigned([s EXCEPT !.emitter = value], "emitter")

\* The lifetime setter, lines 476-486.
LifetimeSetter(s, value) ==
    IF s.debug /\ value < 0 THEN Throw(s)
    ELSE Assigned([s EXCEPT !.lifetime = value], "lifetime")

\* system.loop = value: loop is a plain field, lines 75-80.
LoopAssignment(s, value) == Assigned([s EXCEPT !.loop = value], "loop")

\* ModelMatrixSetter that never marks the combined matrix dirty.
ModelMatrixSetterKeepsClean(s, value) ==
    Assigned([s EXCEPT !.modelMatrix = value], "modelMatrix")

\* The modelMatrix setter, lines 194-206 (value is a matrix, so the check
\* of line 200 passes).
ModelMatrixSetter(s, value) ==
    Assigned([s EXCEPT !.matrixDirty =
                           @ \/ ~Matrix4Equals(s.modelMatrix, value),
                       !.modelMatrix = value], "modelMatrix")

\* The emitterModelMatrix setter, lines 213-225.
EmitterModelMatrixSetter(s, value) ==
    Assigned([s EXCEPT !.matrixDirty =
                           @ \/ ~Matrix4Equals(s.emitterModelMatrix, value),
                       !.emitterModelMatrix = value], "emitterModelMatrix")

\* BillboardCollection.prototype.destroy: every entry is released; it returns
\* undefined.
BillboardCollectionDestroy(s) ==
    [s EXCEPT !.billboardCollection = [defined |-> FALSE, show |-> <<>>]]

\* destroyObject(this): from now on every function of the object throws and
\* isDestroyed returns true.
DestroyObject(s) == [s EXCEPT !.destroyed = TRUE]

\* Destroy that leaves the billboard collection alone.
DestroyKeepsCollection(s) == [DestroyObject(s) EXCEPT !.lastOp = "destroy"]

\* ParticleSystem.prototype.destroy, lines 862-866.
Destroy(s) ==
    [DestroyObject(IF s.billboardCollection.defined
                   THEN BillboardCollectionDestroy(s) ELSE s)
        EXCEPT !.lastOp = "destroy"]

\* ParticleSystem.prototype.isDestroyed, lines 846-848, and what
\* destroyObject puts in its place.
IsDestroyed(s) == IF s.destroyed THEN TRUE ELSE FALSE

(* ----------------------- the system and its driver --------------------- *)

\* new ParticleBurst({time, minimum, maximum}); _complete starts false.
Burst(time, minimum, maximum) ==
    [time |-> time, minimum |-> minimum, maximum |-> maximum,
     complete |-> FALSE]

\* The burst lists systems are constructed with (options.bursts; none is <<>>).
BurstLists ==
    {<<>>, <<Burst(1, 2, 2)>>, <<Burst(0, 3, 3)>>, <<Burst(1, 1, 2)>>,
     <<Burst(0, 1, 1), Burst(1, 2, 2)>>}

\* The lifetimes systems are constructed with, in ticks (options.lifetime).
Lifetimes == {TicksPerSecond, MaxValue}

\* The emission rates systems are constructed with (options.emissionRate).
EmissionRates == {0, 1}

\* The particle lives systems are constructed with, in ticks (options.particleLife).
ParticleLives == {TicksPerSecond}

\* The frame numbers the frame driver hands to update.
FrameNumbers == {ShrinkPeriod - 1, ShrinkPeriod}

\* The frame times the frame driver hands to update.
FrameTimes == 0..MaxTime

\* The state the constructor leaves, lines 58-153.
Constructor ==
    /\ show \in BOOLEAN
    /\ loop \in BOOLEAN
    /\ emitter = TRUE
    /\ bursts \in BurstLists
    /\ emissionRate \in EmissionRates
    /\ minimumParticleLife \in ParticleLives
    /\ maximumParticleLife = minimumParticleLife
    /\ lifetime \in Lifetimes
    /\ billboardCollection = [defined |-> FALSE, show |-> <<>>]
    /\ particles = <<>>
    /\ particlePool = <<>>
    /\ previousTime = NoTime
    /\ currentTime = 0
    /\ carryOver = 0
    /\ isComplete = FALSE
    /\ updateParticlePool = TRUE
    /\ particleEstimate = 0
    /\ lastOp = "new"
    /\ lastFrame = 0
    /\ raised = 0
    /\ emitted = 0
    /\ fired = Zeros(bursts)
    /\ totalDt = 0
    /\ dtWrapped = FALSE
    /\ wraps = 0
    /\ cycleFired = Zeros(bursts)
    /\ lastCycleFired = Zeros(bursts)
    /\ destroyed = FALSE
    /\ constructed = 0
    /\ assigned = 0
    /\ matrixDirty = TRUE
    /\ combinedMatrix = ZeroMatrix
    /\ multiplied = 0
    /\ transformedBy = ZeroMatrix
    /\ lastTime = NoTime
    /\ shownTime = NoTime
    /\ hiddenTime = NoTime
    /\ resumed = FALSE
    /\ calls = 0

\* options.modelMatrix and options.emitterModelMatrix are left out: lines
\* 97-100 take Matrix4.IDENTITY.
DefaultMatrices == modelMatrix = IDENTITY /\ emitterModelMatrix = IDENTITY

\* A system in a debug build, driven at arbitrary frame times.
Init ==
    /\ Constructor
    /\ DefaultMatrices
    /\ debug = TRUE
    /\ frameDelta = 0

\* The amounts randomBetween can return for the bursts of s.
BurstAmounts(s) ==
    {a \in [DOMAIN s.bursts -> 0..SeqSum([i \in DOMAIN s.bursts |-> s.bursts[i].maximum])] :
        \A i \in DOMAIN s.bursts :
            a[i] \in RandomBetween(s.bursts[i].minimum, s.bursts[i].maximum)}

\* The number of particles update(time) would emit, given the burst amounts.
NumToEmit(s, time, amount) ==
    IF ~s.show THEN 0
    ELSE LET dt == FrameDelta(s, time)
         IN  CalculateNumberToEmit(SimulateParticles(PreparePool(s), dt),
                                   dt, amount).numToEmit

\* The frame driver calls update(frameState).
Update(time, frameNumber) ==
    \E amount \in BurstAmounts(Sys) :
        \E lives \in [1..NumToEmit(Sys, time, amount) ->
                        RandomBetween(minimumParticleLife, maximumParticleLife)] :
            LET s == UpdateSys(Sys, time, frameNumber, amount, lives)
            IN  /\ ~destroyed
                /\ s.totalDt <= MaxElapsed
                /\ s.raised <= MaxRaised
                /\ Becomes(s)

\* The owner assigns system.show.
SetShow(value) ==
    /\ value # show
    /\ Becomes([Sys EXCEPT !.show = value, !.lastOp = "show"])

Next ==
    \/ \E time \in FrameTimes, frameNumber \in FrameNumbers :
           Update(time, frameNumber)
    \/ \E value \in BOOLEAN : SetShow(value)

Spec == Init /\ [][Next]_vars

(* --------------------- an owner who reconfigures ----------------------- *)

\* The owner changes one property of the running system (an assignment that
\* throws changes none and can be tried again), and may destroy the system.

\* A system that is reconfigured is not updated once the frame deltas it has
\* consumed sum to more than this.
MaxConfigElapsed == 3

\* The values the owner assigns.
EmissionRateValues == EmissionRates \cup {-1}
MaximumParticleLifeValues == {TicksPerSecond - 1, TicksPerSecond + 1}

\* The burst lists the owner assigns.
BurstsValues == {<<>>, <<Burst(1, 2, 2)>>}

\* A system constructed with the default show, loop and lifetime, in a debug
\* or a release build.
InitConfig ==
    /\ Constructor
    /\ DefaultMatrices
    /\ show /\ loop /\ lifetime = MaxValue
    /\ bursts \in BurstsValues
    /\ debug \in BOOLEAN
    /\ frameDelta = 0

SetEmissionRate(value) ==
    /\ assigned = 0
    /\ Becomes(EmissionRateSetter(Sys, value))

SetMaximumParticleLife(value) ==
    /\ assigned = 0
    /\ Becomes(MaximumParticleLifeSetter(Sys, value))

SetBursts(value) ==
    /\ assigned = 0
    /\ Becomes(BurstsSetter(Sys, value))

SetEmitter(value) ==
    /\ assigned = 0
    /\ Becomes(EmitterSetter(Sys, value))

\* The owner calls destroy().
CallDestroy ==
    /\ ~destroyed
    /\ Becomes(Destroy(Sys))

\* update() or destroy() is called on the destroyed system: it throws.
CallDestroyed ==
    /\ destroyed
    /\ Becomes(Throw(Sys))

NextConfig ==
    \/ \E time \in FrameTimes, frameNumber \in FrameNumbers :
           Update(time, frameNumber) /\ totalDt' <= MaxConfigElapsed
    \/ \E value \in BOOLEAN : SetShow(value)
    \/ \E value \in EmissionRateValues : SetEmissionRate(value)
    \/ \E value \in MaximumParticleLifeValues : SetMaximumParticleLife(value)
    \/ \E value \in BurstsValues : SetBursts(value)
    \/ \E value \in BOOLEAN : SetEmitter(value)
    \/ CallDestroy
    \/ CallDestroyed

SpecConfig == InitConfig /\ [][NextConfig]_vars

(* ------------------ an owner who restarts the system ------------------- *)

\* The owner switches loop on and raises the lifetime, at any point.

\* The lifetimes the owner assigns.
LifetimeValues == {2 * TicksPerSecond, MaxValue}

\* A shown system that does not loop and has a finite lifetime.
InitRestart ==
    /\ Constructor
    /\ DefaultMatrices
    /\ show /\ ~loop /\ lifetime # MaxValue
    /\ bursts \in BurstsValues
    /\ debug = TRUE
    /\ frameDelta = 0

SetLoop(value) ==
    /\ value /\ ~loop
    /\ Becomes(LoopAssignment(Sys, value))

SetLifetime(value) ==
    /\ value > lifetime
    /\ Becomes(LifetimeSetter(Sys, value))

NextRestart ==
    \/ \E time \in FrameTimes, frameNumber \in FrameNumbers :
           Update(time, frameNumber)
    \/ SetLoop(TRUE)
    \/ \E value \in LifetimeValues : SetLifetime(value)

SpecRestart == InitRestart /\ [][NextRestart]_vars

(* ------------------- an owner who hides the system --------------------- *)

\* The frame driver counts its update calls up to this number.
MaxCalls == 4

\* The burst lists the hidden and shown systems are constructed with.
HideBursts == BurstsValues \cup {<<Burst(0, 3, 3)>>}

\* The frame driver's notes of the call update(time) it makes on s.
Noted(s, time) ==
    IF s.show
    THEN [lastTime |-> time, shownTime |-> time, hiddenTime |-> NoTime,
          resumed |-> s.shownTime # NoTime /\ s.hiddenTime > s.shownTime,
          calls |-> IF s.calls < MaxCalls THEN s.calls + 1 ELSE s.calls]
    ELSE [lastTime |-> time, shownTime |-> s.shownTime, hiddenTime |-> time,
          resumed |-> FALSE,
          calls |-> IF s.calls < MaxCalls THEN s.calls + 1 ELSE s.calls]

\* A system that does not loop, in a debug build.
InitHide ==
    /\ Constructor
    /\ DefaultMatrices
    /\ ~loop
    /\ bursts \in HideBursts
    /\ debug = TRUE
    /\ frameDelta = 0

\* The frame driver calls update(frameState) and notes the call.
UpdateNoted(time, frameNumber) ==
    \E amount \in BurstAmounts(Sys) :
        \E lives \in [1..NumToEmit(Sys, time, amount) ->
                        RandomBetween(minimumParticleLife, maximumParticleLife)] :
            LET s == UpdateSys(Sys, time, frameNumber, amount, lives)
                n == Noted(Sys, time)
            IN  /\ s.totalDt <= MaxElapsed
                /\ s.raised <= MaxRaised
                /\ Becomes([s EXCEPT !.lastTime = n.lastTime,
                                     !.shownTime = n.shownTime,
                                     !.hiddenTime = n.hiddenTime,
                                     !.resumed = n.resumed,
                                     !.calls = n.calls])

NextHide ==
    \/ \E time \in FrameTimes, frameNumber \in FrameNumbers :
           UpdateNoted(time, frameNumber)
    \/ \E value \in BOOLEAN : SetShow(value)

SpecHide == InitHide /\ [][NextHide]_vars

(* --------------- an owner who takes the emitter away ------------------- *)

\* An assignment to emitter is not made once this many have been made.
MaxEmitterAssigned == 2

\* A shown system in a release build (the emitter setter's check is compiled
\* out, so undefined can be assigned).
InitEmitter ==
    /\ Constructor
    /\ DefaultMatrices
    /\ show
    /\ bursts \in BurstsValues
    /\ debug = FALSE
    /\ frameDelta = 0

\* The owner assigns system.emitter: undefined, or an emitter again.
SwitchEmitter(value) ==
    /\ value # emitter
    /\ assigned < MaxEmitterAssigned
    /\ Becomes(EmitterSetter(Sys, value))

NextEmitter ==
    \/ \E time \in FrameTimes, frameNumber \in FrameNumbers :
           Update(time, frameNumber)
    \/ \E value \in BOOLEAN : SwitchEmitter(value)

SpecEmitter == InitEmitter /\ [][NextEmitter]_vars

(* ------------------- an owner who moves the system --------------------- *)

\* A matrix assignment is not made once this many have been made.
MaxMatrixAssigned == 2

\* A scaling along x.
Scale == <<2, 0, 0, 1>>

\* The reflection that swaps x and y.
Swap == <<0, 1, 1, 0>>

\* The matrices the owner hands to the system as modelMatrix.
ModelMatrixValues == {IDENTITY, Scale}

\* The matrices the owner hands to the system as emitterModelMatrix.
EmitterModelMatrixValues == {IDENTITY, Swap}

\* A shown system that emits one particle per second for ever, constructed
\* with options.modelMatrix and options.emitterModelMatrix.
InitMatrix ==
    /\ Constructor
    /\ show /\ ~loop /\ lifetime = MaxValue
    /\ bursts = <<>> /\ emissionRate = 1
    /\ modelMatrix \in ModelMatrixValues
    /\ emitterModelMatrix \in EmitterModelMatrixValues
    /\ debug = TRUE
    /\ frameDelta = 0

SetModelMatrix(value) ==
    /\ assigned < MaxMatrixAssigned
    /\ Becomes(ModelMatrixSetter(Sys, value))

SetEmitterModelMatrix(value) ==
    /\ assigned < MaxMatrixAssigned
    /\ Becomes(EmitterModelMatrixSetter(Sys, value))

NextMatrix ==
    \/ \E time \in FrameTimes, frameNumber \in FrameNumbers :
           Update(time, frameNumber)
    \/ \E value \in ModelMatrixValues : SetModelMatrix(value)
    \/ \E value \in EmitterModelMatrixValues : SetEmitterModelMatrix(value)

SpecMatrix == InitMatrix /\ [][NextMatrix]_vars

(* ------------------- a frame driver with a fixed step ------------------ *)

\* A looping system with a finite lifetime, shown, whose driver calls update
\* every frameDelta ticks.
InitSteady ==
    /\ Constructor
    /\ DefaultMatrices
    /\ show /\ loop /\ lifetime # MaxValue
    /\ debug = TRUE
    /\ frameDelta \in 1..MaxTime

\* The observer's counts, set back to their initial values.
Forget(s) ==
    [s EXCEPT !.raised = 0, !.emitted = 0, !.fired = Zeros(s.bursts),
              !.totalDt = 0, !.dtWrapped = FALSE, !.wraps = 0,
              !.cycleFired = Zeros(s.bursts),
              !.lastCycleFired = Zeros(s.bursts), !.constructed = 0]

\* The frame driver calls update(frameState) frameDelta ticks after the last
\* call.  update reads the frame time only through its difference to
\* _previousTime, so the clock's origin is moved to the frame time after the
\* call, and the observer keeps no counts: a system that runs forever then
\* has finitely many states.
UpdateSteady(frameNumber) ==
    LET time == IF previousTime = NoTime THEN 0 ELSE previousTime + frameDelta
    IN  \E amount \in BurstAmounts(Sys) :
            \E lives \in [1..NumToEmit(Sys, time, amount) ->
                            RandomBetween(minimumParticleLife,
                                          maximumParticleLife)] :
                LET s == UpdateSys(Sys, time, frameNumber, amount, lives)
                IN  Becomes([Forget(s) EXCEPT !.previousTime = 0])

\* Every call is for a new frame: frameState.frameNumber differs from the
\* last call's.
NextSteady ==
    \E frameNumber \in FrameNumbers \ {lastFrame} : UpdateSteady(frameNumber)

\* The driver goes on to another frame.
FrameAdvances == lastFrame' \in FrameNumbers /\ lastFrame' # lastFrame

\* The driver never stops: frame after frame, it calls update.  (Every step
\* of NextSteady changes lastFrame and a new frame can always begin, so this
\* is weak fairness of NextSteady.)
SpecSteady == InitSteady /\ [][NextSteady]_vars /\ WF_lastFrame(FrameAdvances)

(* ------------------------------ claims --------------------------------- *)

\* The system never ends by itself: its lifetime is finite.
FiniteLifetime == lifetime # MaxValue

\* The frame delta of the update step that takes the state to the next one,
\* read off the recorded frame times.
StepDt ==
    IF previousTime = NoTime THEN 0 ELSE Max(previousTime' - previousTime, 0)

\* The step is an update call on a shown system.
ShownUpdateStep == lastOp' = "update" /\ show

\* C1 (as claimed): a non-looping system with a finite lifetime raises the
\* complete event exactly once, in the update that sets isComplete, and never
\* again in a later update.
C1_CompleteRaisedOnce ==
    (~loop /\ FiniteLifetime) => raised = (IF isComplete THEN 1 ELSE 0)

\* C2 (as claimed): after every update 0 <= carryOver < 1.
C2_CarryOverBelowOne == 0 <= carryOver /\ carryOver < TicksPerSecond

\* |cumulative emitted count - emissionRate * total elapsed time| <= 1.
WithinOneOfRate ==
    LET drift == emitted * TicksPerSecond - emissionRate * totalDt
    IN  -TicksPerSecond <= drift /\ drift <= TicksPerSecond

\* C3 (as claimed): with an emitter, no bursts and not complete, the cumulative
\* emitted count is within 1 of emissionRate * total elapsed time, also when
\* some frame's dt is at least the lifetime.
C3_NoDrift ==
    (emitter /\ bursts = <<>> /\ ~isComplete) => WithinOneOfRate

\* C3 (amended): the same, for runs in which every frame's dt is smaller than
\* the lifetime (no dt was changed by the wrap modulo lifetime).
C3_NoDriftBelowLifetime ==
    (emitter /\ bursts = <<>> /\ ~isComplete /\ ~dtWrapped) => WithinOneOfRate

\* C3 witness: a looping system that has wrapped, emitted several particles at
\* rate 1 and never saw a dt of a lifetime or more.
C3_Witness ==
    /\ emitter /\ bursts = <<>> /\ ~isComplete /\ ~dtWrapped
    /\ emissionRate > 0 /\ emitted >= 2 /\ wraps >= 1

\* C4 (as claimed): in a looping system with finite lifetime, in every cycle
\* between two consecutive wraps every burst with time < lifetime fires
\* exactly once.
C4_BurstFiresEveryCycle ==
    (loop /\ FiniteLifetime /\ wraps >= 2) =>
        \A i \in DOMAIN bursts :
            bursts[i].time < lifetime => lastCycleFired[i] = 1

\* Burst i has not fired yet and elapsed time exceeds its trigger time.
Passed(i) == ~bursts[i].complete /\ currentTime > bursts[i].time

\* The particles the bursts in set D emit when each has minimum = maximum.
FixedAmount(D) ==
    SeqSum([i \in DOMAIN bursts |-> IF i \in D THEN bursts[i].minimum ELSE 0])

\* C5 (as claimed): a not-yet-fired burst with minimum = maximum = n fires, and
\* emits n particles, in the first update at whose end elapsed time exceeds its
\* trigger time.
C5_BurstFiresWhenPassedAtEnd ==
    [][\A i \in DOMAIN bursts :
          (/\ ShownUpdateStep /\ emitter /\ ~isComplete
           /\ bursts[i].minimum = bursts[i].maximum
           /\ ~bursts[i].complete
           /\ currentTime <= bursts[i].time
           /\ currentTime' > bursts[i].time)
          => (fired'[i] = fired[i] + 1 /\ emitted' >= emitted + bursts[i].minimum)
      ]_vars

\* C5 (amended): a not-yet-fired burst fires in an update of a shown, not
\* complete system exactly when elapsed time exceeds its trigger time at the
\* start of that update; with minimum = maximum = n (and emissionRate 0, an
\* emitter) the update emits exactly the n particles of each burst that fires.
C5_BurstFiresWhenPassedAtStart ==
    [][(ShownUpdateStep /\ ~isComplete) =>
          /\ \A i \in DOMAIN bursts :
                 ~bursts[i].complete =>
                     fired'[i] = fired[i] + (IF currentTime > bursts[i].time THEN 1 ELSE 0)
          /\ (/\ emitter /\ emissionRate = 0
              /\ \A i \in DOMAIN bursts : bursts[i].minimum = bursts[i].maximum)
             => emitted' = emitted + FixedAmount({i \in DOMAIN bursts : Passed(i)})
      ]_vars

\* C5 witness: a burst with minimum = maximum has fired once and its particles
\* are the only ones emitted.
C5_Witness ==
    /\ emissionRate = 0 /\ Len(bursts) = 1
    /\ bursts[1].minimum = bursts[1].maximum
    /\ fired[1] = 1 /\ emitted = bursts[1].minimum /\ lastOp = "update"

\* The system of C6: emissionRate 0, default lifetime, one burst at time 0
\* with minimum = maximum = 3.
C6_System ==
    /\ emitter /\ emissionRate = 0 /\ lifetime = MaxValue /\ Len(bursts) = 1
    /\ bursts[1].time = 0 /\ bursts[1].minimum = 3 /\ bursts[1].maximum = 3

\* C6 (as claimed): the 3 particles are emitted during the first update, and
\* the total ever emitted is exactly 3.
C6_ThreeAtFirstUpdate ==
    (C6_System /\ previousTime # NoTime) => emitted = 3

\* C6 (amended): no particle is emitted in an update that starts with elapsed
\* time 0 (the first update does); the 3 particles are emitted in the first
\* update that starts with elapsed time > 0, and the total ever emitted is 0
\* before it and exactly 3 from then on.
C6_ThreeOnceTimeHasPassed ==
    /\ [](C6_System => (emitted \in {0, 3} /\ (previousTime = NoTime => emitted = 0)))
    /\ [][(C6_System /\ ShownUpdateStep) =>
             emitted' = (IF currentTime > 0 THEN 3 ELSE 0)]_vars

\* C6 witness: the burst has fired and updates went on after it.
C6_Witness ==
    C6_System /\ emitted = 3 /\ bursts[1].complete /\ totalDt >= 3 /\ lastOp = "update"

\* C7: a looping system with finite lifetime L never completes and never
\* raises the complete event; an update that advances elapsed time to t > L
\* leaves it at t mod L with every burst's fired flag false.
C7_LoopWraps ==
    /\ []((loop /\ FiniteLifetime) => (raised = 0 /\ ~isComplete))
    /\ [][(ShownUpdateStep /\ loop /\ FiniteLifetime
             /\ currentTime + StepDt > lifetime) =>
             /\ currentTime' = (currentTime + StepDt) % lifetime
             /\ ~isComplete' /\ raised' = raised
             /\ \A i \in DOMAIN bursts' : ~bursts'[i].complete
         ]_vars

\* C7 witness: a looping system has wrapped in the update in which a burst
\* fired (the burst has fired, and its flag is false again).
C7_Witness ==
    /\ loop /\ FiniteLifetime /\ wraps >= 1 /\ lastOp = "update"
    /\ Len(bursts) = 1 /\ fired[1] >= 1 /\ cycleFired[1] = 0
    /\ ~bursts[1].complete /\ lastCycleFired[1] = 1

\* Every particle live before the step is live after it, unchanged and in place.
LiveKept ==
    /\ Len(particles') >= Len(particles)
    /\ \A i \in DOMAIN particles : particles'[i] = particles[i]

\* C8 (as claimed): an update with dt = 0 emits no particle, retires no
\* particle and leaves elapsed time unchanged.
C8_ZeroDeltaDoesNothing ==
    [][(lastOp' = "update" /\ StepDt = 0) =>
          (emitted' = emitted /\ LiveKept /\ currentTime' = currentTime)]_vars

\* C8 (amended): under a constant configuration an update with dt = 0 emits
\* no rate-based particle, retires no particle and leaves elapsed time and
\* carryOver unchanged; it emits the particles of the bursts that were already
\* due at its start (not fired, elapsed time > trigger time, system not
\* complete), and only those, and leaves no burst that could fire, so
\* repeating it changes nothing more.
C8_ZeroDeltaFiresDueBursts ==
    [][(ShownUpdateStep /\ StepDt = 0) =>
          /\ LiveKept /\ currentTime' = currentTime /\ carryOver' = carryOver
          /\ LET due == IF isComplete THEN {}
                        ELSE {i \in DOMAIN bursts : Passed(i)}
                 lo == SeqSum([i \in DOMAIN bursts |->
                                  IF i \in due THEN bursts[i].minimum ELSE 0])
                 hi == SeqSum([i \in DOMAIN bursts |->
                                  IF i \in due THEN bursts[i].maximum ELSE 0])
             IN  /\ emitted' - emitted \in lo..hi
                 /\ \A i \in DOMAIN bursts :
                        fired'[i] = fired[i] + (IF i \in due THEN 1 ELSE 0)
          /\ \A i \in DOMAIN bursts' :
                 isComplete' \/ bursts'[i].complete
                     \/ currentTime' <= bursts'[i].time
      ]_vars

\* C8 witness: with the default lifetime a burst at time 1 has fired although
\* only 2 ticks were ever consumed: elapsed time was 2 when the update that
\* fired it started, so that update had dt = 0.
C8_Witness ==
    /\ lifetime = MaxValue /\ Len(bursts) = 1 /\ bursts[1].time = 1
    /\ fired[1] = 1 /\ totalDt = 2 /\ currentTime = 2
    /\ Len(particles) > 0 /\ lastOp = "update" /\ show

\* C9: an update call while show is false changes nothing.
C9_HiddenUpdateIsNoOp ==
    [][(lastOp' = "update" /\ ~show) =>
          UNCHANGED <<show, currentTime, previousTime, carryOver, bursts,
                      particles, particlePool, updateParticlePool,
                      particleEstimate, billboardCollection, isComplete,
                      raised, emitted, fired, totalDt, wraps>>]_vars

\* C9 witness: update was called on a hidden system that holds live particles,
\* on a shrink frame.
C9_Witness ==
    /\ lastOp = "update" /\ ~show /\ Len(particles) > 0
    /\ lastFrame % ShrinkPeriod = 0 /\ previousTime # NoTime

\* C10 (as claimed): after a periodic shrink the pool holds no more entries
\* than the estimate requires: poolSize + liveCount <= max(estimate, liveCount).
C10_ShrinkTrimsPool ==
    (lastOp = "update" /\ show /\ lastFrame % ShrinkPeriod = 0) =>
        Len(particlePool) + Len(particles)
            <= Max(particleEstimate, Len(particles))

(* ------------------------------- pool ---------------------------------- *)

\* poolSize + liveCount.
Held == Len(particlePool) + Len(particles)

CapacityEstimate ==
    LET x == emissionRate * maximumParticleLife
                 + SeqSum([i \in DOMAIN bursts |-> bursts[i].maximum])
                       * TicksPerSecond
        bound == (IF x < 0 THEN -x ELSE x) + 1
    IN  CHOOSE e \in (-bound)..bound :
            e * TicksPerSecond >= x /\ (e - 1) * TicksPerSecond < x

\* C13: assigning emissionRate, bursts or maximumParticleLife sets the resize
\* flag (it is set after construction too); the next update with show=true
\* then sets the capacity estimate to
\* ceil(emissionRate * maximumParticleLife + sum of bursts' maximum), adds
\* exactly max(estimate - liveCount - poolSize, 0) particles to the pool, each
\* with a hidden billboard in the collection, and clears the flag, so that
\* liveCount + poolSize >= estimate.  (The particles update holds afterwards
\* are the ones it held, the ones added, and the ones emission constructed;
\* those left in the pool have a hidden billboard.)
C13_PoolSizedAfterAssignment ==
    [][/\ lastOp' \in {"emissionRate", "bursts", "maximumParticleLife"}
           => updateParticlePool'
       /\ (ShownUpdateStep /\ updateParticlePool) =>
           LET added == Max(CapacityEstimate - Held, 0)
           IN  /\ particleEstimate' = CapacityEstimate
               /\ ~updateParticlePool'
               /\ Held' = Held + added + (constructed' - constructed)
               /\ Held' >= particleEstimate'
               /\ Cardinality(DOMAIN billboardCollection'.show) = Held'
               /\ \A i \in DOMAIN particlePool' :
                      LET b == particlePool'[i].billboard
                      IN  /\ b \in DOMAIN billboardCollection'.show
                          /\ ~billboardCollection'.show[b]
       /\ (ShownUpdateStep /\ ~updateParticlePool) =>
               particleEstimate' = particleEstimate]_vars

\* maximumParticleLife was assigned while a particle was live, and the next
\* update raised the estimate from 1 to 2 and pooled one more particle.
C13_Witness ==
    /\ lastOp = "update" /\ ~updateParticlePool /\ constructed = 0
    /\ emissionRate = 1 /\ bursts = <<>>
    /\ maximumParticleLife = TicksPerSecond + 1
    /\ particleEstimate = 2 /\ Held = 2 /\ Len(particles) >= 1

(* ---------------------- particles and billboards ----------------------- *)

\* C14: after every update call every particle in the live array and in the
\* pool owns one billboard that is in the collection, no billboard is owned by
\* two particles, and the collection holds liveCount + poolSize entries.
C14_SinkInStep ==
    LET held == particles \o particlePool
    IN  /\ \A i \in DOMAIN held :
               held[i].billboard \in DOMAIN billboardCollection.show
        /\ \A i, j \in DOMAIN held :
               held[i].billboard = held[j].billboard => i = j
        /\ Cardinality(DOMAIN billboardCollection.show) = Len(held)

\* After an update there are live and pooled particles, one of them
\* constructed by emission (it got its billboard when it was emitted, not when
\* the pool was sized).
C14_Witness ==
    /\ lastOp = "update" /\ constructed >= 1
    /\ Len(particles) >= 1 /\ Len(particlePool) >= 1

\* C15: after every update call every particle in the live array has
\* age <= life; a particle whose age exceeds its life during an update is not
\* in the live array with that age when the update returns (it is in the pool,
\* or was taken from it again and emitted with age 0).
C15_LiveWithinLife ==
    [][/\ \A j \in DOMAIN particles' : particles'[j].age <= particles'[j].life
       /\ ShownUpdateStep =>
             \A i \in DOMAIN particles :
                 particles[i].age + StepDt > particles[i].life =>
                     /\ \A j \in DOMAIN particles' :
                            particles'[j].id = particles[i].id
                                => particles'[j].age = 0
                     /\ \/ \E j \in DOMAIN particles' :
                               particles'[j].id = particles[i].id
                        \/ \E j \in DOMAIN particlePool' :
                               /\ particlePool'[j].id = particles[i].id
                               /\ particlePool'[j].age
                                      = particles[i].age + StepDt]_vars

\* After an update one particle is live at exactly age = life and another has
\* been retired into the pool with age > life.
C15_Witness ==
    /\ lastOp = "update"
    /\ \E i \in DOMAIN particles : particles[i].age = particles[i].life
    /\ \E j \in DOMAIN particlePool :
           particlePool[j].age > particlePool[j].life

\* The fraction f is in [0, 1].
InUnitInterval(f) == 0 <= f[1] /\ f[1] <= f[2]

\* The fraction f is at most the fraction g.
AtMost(f, g) == f[1] * g[2] <= g[1] * f[2]

\* C16: after every update the normalizedAge of every live particle is in
\* [0, 1]; a particle that was live before an update and is still live after
\* it, not emitted anew, has a normalizedAge at least as large as before; the
\* particles an update emits (the last ones of the live array) have
\* normalizedAge 0.
C16_NormalizedAgeMonotone ==
    [][/\ \A j \in DOMAIN particles' :
              InUnitInterval(particles'[j].normalizedAge)
       /\ ShownUpdateStep =>
             \A j \in DOMAIN particles' :
                 IF j > Len(particles') - (emitted' - emitted)
                 THEN particles'[j].normalizedAge = Fraction(0, 1)
                 ELSE \E i \in DOMAIN particles :
                          /\ particles[i].id = particles'[j].id
                          /\ AtMost(particles[i].normalizedAge,
                                    particles'[j].normalizedAge)]_vars

\* After an update a particle is live half-way through its life, and more
\* particles have been emitted than the system holds: one was emitted anew.
C16_Witness ==
    /\ lastOp = "update" /\ emitted > Held
    /\ \E i \in DOMAIN particles :
           /\ 0 < particles[i].age /\ particles[i].age < particles[i].life
           /\ particles[i].normalizedAge
                  = Fraction(particles[i].age, particles[i].life)

(* ---------------------------- completion ------------------------------- *)

\* C17: once isComplete is true no update emits a particle, by rate or by
\* burst (no burst fires, carryOver stays), so the live count does not grow;
\* the live particles go on ageing: each one is still live, dt older, if that
\* age is within its life, and in the pool otherwise.
C17_NoEmissionOnceComplete ==
    [][(ShownUpdateStep /\ isComplete) =>
          /\ isComplete'
          /\ emitted' = emitted /\ fired' = fired /\ bursts' = bursts
          /\ carryOver' = carryOver /\ constructed' = constructed
          /\ Len(particles') <= Len(particles)
          /\ \A i \in DOMAIN particles :
                 LET age == particles[i].age + StepDt
                     held == IF age > particles[i].life
                             THEN particlePool' ELSE particles'
                 IN  \E j \in DOMAIN held :
                         /\ held[j].id = particles[i].id
                         /\ held[j].age = age
          /\ Len(particles') + Len(particlePool')
                 = Len(particles) + Len(particlePool)]_vars

\* A completed system has been updated again: no particle is live any more,
\* one that was emitted lies in the pool, older than its life, and a burst
\* whose time has passed has not fired.
C17_Witness ==
    /\ lastOp = "update" /\ isComplete /\ raised >= 2
    /\ emitted >= 1 /\ particles = <<>>
    /\ \E j \in DOMAIN particlePool :
           particlePool[j].age > particlePool[j].life
    /\ \E i \in DOMAIN bursts :
           ~bursts[i].complete /\ currentTime > bursts[i].time

(* --------------------------- reconfiguration --------------------------- *)

\* C18: when the system has no emitter, an update call adds no particle to
\* the live array and takes none from the pool (every pooled particle stays
\* pooled, none is constructed), whatever the scheduler computes, and it
\* returns normally.
C18_NoEmitterNoEmission ==
    [][(lastOp' = "update" /\ ~emitter) =>
          /\ emitted' = emitted /\ constructed' = constructed
          /\ Len(particles') <= Len(particles)
          /\ \A j \in DOMAIN particles' :
                 \E i \in DOMAIN particles :
                     particles[i].id = particles'[j].id
          /\ \A i \in DOMAIN particlePool :
                 \E j \in DOMAIN particlePool' :
                     particlePool'[j] = particlePool[i]]_vars

\* A system without emitter has been updated and the scheduler computed a
\* positive count: a burst fired, yet no particle was ever emitted.
C18_Witness ==
    /\ lastOp = "update" /\ ~emitter /\ show /\ emitted = 0
    /\ \E i \in DOMAIN bursts : fired[i] >= 1 /\ bursts[i].minimum > 0
    /\ Len(particlePool) > 0

\* C19 (as claimed, for a debug build): no invalid configuration value is
\* ever stored: the emission rate is not negative and the minimum particle
\* life is not greater than the maximum.
C19_InvalidNeverStored ==
    debug => /\ emissionRate >= 0
             /\ minimumParticleLife <= maximumParticleLife

\* C19 (amended): in a debug build a negative emission rate assigned through
\* the setter is never stored, and an assignment that throws leaves the
\* stored configuration, the resize flag and everything else as it was.
C19_SetterRejectsNegative ==
    [][/\ debug => emissionRate' >= 0
       /\ (lastOp' = "error" /\ ~destroyed) =>
              UNCHANGED <<show, loop, emitter, bursts, emissionRate,
                          minimumParticleLife, maximumParticleLife, lifetime,
                          billboardCollection, particles, particlePool,
                          previousTime, currentTime, carryOver, isComplete,
                          updateParticlePool, particleEstimate, assigned>>]_vars

\* In a debug build an assignment has just thrown on a running system whose
\* pool is sized: the resize flag is still clear.
C19_Witness ==
    /\ debug /\ lastOp = "error" /\ ~destroyed /\ assigned = 0
    /\ ~updateParticlePool /\ Len(particles) >= 1

\* What isDestroyed() returns.
IsDestroyedNow == IsDestroyed(Sys)

\* C20: destroy is terminal.  isDestroyed returns false until destroy is
\* called and true from then on; destroy leaves the billboard collection
\* destroyed, with no entry; on the destroyed system no call of update or
\* destroy runs: it throws and changes nothing.
C20_DestroyIsTerminal ==
    [][/\ lastOp' = "destroy" =>
              /\ ~IsDestroyedNow /\ IsDestroyedNow'
              /\ ~billboardCollection'.defined
              /\ DOMAIN billboardCollection'.show = {}
       /\ IsDestroyedNow' => (IsDestroyedNow \/ lastOp' = "destroy")
       /\ IsDestroyedNow =>
              /\ IsDestroyedNow'
              /\ lastOp' \notin {"update", "destroy"}
              /\ lastOp' = "error" =>
                     UNCHANGED <<show, loop, emitter, bursts, emissionRate,
                                 minimumParticleLife, maximumParticleLife,
                                 lifetime, billboardCollection, particles,
                                 particlePool, previousTime, currentTime,
                                 carryOver, isComplete, updateParticlePool,
                                 particleEstimate, raised, emitted>>]_vars

\* A system with live particles was destroyed and then called again: the
\* call threw, the collection is gone.
C20_Witness ==
    /\ IsDestroyedNow /\ lastOp = "error"
    /\ Len(particles) >= 1 /\ emitted >= 1
    /\ ~billboardCollection.defined
    /\ DOMAIN billboardCollection.show = {}

(* ------------------------------- bursts -------------------------------- *)

\* C21: between two consecutive loop wraps, and over the whole run of a
\* system that never wraps, each burst contributes to the emission count at
\* most once: a burst fires only while its fired flag is clear, firing sets
\* the flag, and only a loop wrap clears a set flag.
C21_BurstOncePerCycle ==
    [][\A i \in DOMAIN bursts :
          /\ fired'[i] > fired[i] =>
                 /\ fired'[i] = fired[i] + 1
                 /\ ~bursts[i].complete
                 /\ bursts'[i].complete \/ wraps' = wraps + 1
          /\ (bursts[i].complete /\ ~bursts'[i].complete) => wraps' = wraps + 1
          /\ cycleFired'[i] <= 1 /\ lastCycleFired'[i] <= 1
          /\ fired'[i] <= wraps' + 1]_vars

\* A looping system has wrapped, and a burst has fired in the cycle before
\* the wrap and again, once, in the cycle after it.
C21_Witness ==
    /\ lastOp = "update" /\ wraps >= 1
    /\ \E i \in DOMAIN bursts :
           /\ fired[i] >= 2 /\ cycleFired[i] = 1 /\ bursts[i].complete

\* C22: isComplete is one-way: once true it is true after every later
\* operation, also after loop has been switched on or the lifetime raised,
\* and the completed system emits nothing more.
C22_CompleteIsOneWay ==
    [][isComplete => (isComplete' /\ emitted' = emitted /\ fired' = fired)]_vars

\* A completed system was given loop = true and a longer lifetime and then
\* updated until elapsed time wrapped: it is still complete.
C22_Witness ==
    /\ lastOp = "update" /\ isComplete /\ loop /\ wraps >= 1
    /\ lifetime = 2 * TicksPerSecond /\ assigned = 2 /\ raised = 1
    /\ emitted >= 1

(* ------------------------ retirement and reuse ------------------------- *)

\* Particle i of the live array is retired by the update step: the step's
\* frame delta takes its age beyond its life.
Retired(i) == particles[i].age + StepDt > particles[i].life

\* How often the particle called id occurs in the sequence q.
Occurrences(q, id) == Cardinality({j \in DOMAIN q : q[j].id = id})

\* After the step the particle called id lies in the pool, once, and is not
\* live; its billboard b is in the collection, hidden.
PooledHidden(id, b) ==
    /\ Occurrences(particlePool', id) = 1
    /\ Occurrences(particles', id) = 0
    /\ b \in DOMAIN billboardCollection'.show
    /\ ~billboardCollection'.show[b]

\* After the step the system no longer holds the particle called id, and its
\* billboard b has left the collection: the periodic shrink removed it.
Shrunk(id, b) ==
    /\ lastFrame' % ShrinkPeriod = 0
    /\ Occurrences(particlePool', id) = 0
    /\ Occurrences(particles', id) = 0
    /\ b \notin DOMAIN billboardCollection'.show

\* After the step the particle called id is live again, once, with age 0,
\* and not pooled; its billboard b is in the collection, shown.
EmittedAnew(id, b) ==
    /\ Occurrences(particles', id) = 1
    /\ Occurrences(particlePool', id) = 0
    /\ \A j \in DOMAIN particles' :
           particles'[j].id = id =>
               particles'[j].age = 0 /\ particles'[j].billboard = b
    /\ b \in DOMAIN billboardCollection'.show
    /\ billboardCollection'.show[b]

\* C23 (as claimed): a particle retired during an update is, when the update
\* returns, in the pool exactly once and not in the live array, its billboard
\* still in the collection and hidden, unless the periodic shrink of that
\* update removed it.
C23_RetiredIsPooled ==
    [][ShownUpdateStep =>
          \A i \in DOMAIN particles :
              Retired(i) =>
                  \/ PooledHidden(particles[i].id, particles[i].billboard)
                  \/ Shrunk(particles[i].id, particles[i].billboard)]_vars

\* C23 (amended): a particle retired during an update is, when the update
\* returns, either in the pool exactly once and not live, its billboard in
\* the collection and hidden; or the emission of the same update has taken it
\* from the pool again, and it is live exactly once with age 0, not pooled,
\* its billboard shown; or the periodic shrink of that update removed it.
C23_RetiredIsPooledOrEmittedAnew ==
    [][ShownUpdateStep =>
          \A i \in DOMAIN particles :
              Retired(i) =>
                  \/ PooledHidden(particles[i].id, particles[i].billboard)
                  \/ EmittedAnew(particles[i].id, particles[i].billboard)
                  \/ Shrunk(particles[i].id, particles[i].billboard)]_vars

\* After an update the pool holds a retired particle, and a particle is live
\* with age 0 although the system has emitted more particles than it holds.
C23_Witness ==
    /\ lastOp = "update" /\ emitted > Held
    /\ \E j \in DOMAIN particlePool :
           particlePool[j].age > particlePool[j].life
    /\ \E i \in DOMAIN particles : particles[i].age = 0

(* --------------------------- clock regression -------------------------- *)

\* The step is an update of a shown system whose frame time is earlier than
\* the previous frame's.
NegativeDeltaStep ==
    ShownUpdateStep /\ previousTime # NoTime /\ previousTime' < previousTime

\* C24 (as claimed): an update whose frame time is earlier than the previous
\* frame's behaves as dt = 0: elapsed time does not decrease, no live
\* particle's age changes, no rate-based particle is emitted (carryOver
\* stays, and without a burst firing nothing is emitted); the stored
\* previous-frame time moves to the earlier time.
C24_NegativeDeltaIsZero ==
    [][NegativeDeltaStep =>
          /\ currentTime' >= currentTime
          /\ LiveKept
          /\ carryOver' = carryOver
          /\ fired' = fired => emitted' = emitted]_vars

\* C24 (amended): the same, except that elapsed time is not advanced rather
\* than never decreased: it stays, unless it already exceeded the finite
\* lifetime of a system that loops at the start of the update (loop was
\* assigned since), and then the update wraps it to elapsed mod lifetime.
C24_NegativeDeltaAddsNoTime ==
    [][NegativeDeltaStep =>
          /\ currentTime' = IF loop /\ FiniteLifetime /\ currentTime > lifetime
                            THEN Mod(currentTime, lifetime) ELSE currentTime
          /\ totalDt' = totalDt
          /\ LiveKept
          /\ carryOver' = carryOver
          /\ fired' = fired => emitted' = emitted]_vars

\* C24 witness: the last update was at frame time 0 after updates that
\* advanced elapsed time (so the clock went back), with a live particle.
C24_Witness ==
    /\ lastOp = "update" /\ previousTime = 0 /\ totalDt > 0
    /\ currentTime = totalDt /\ Len(particles) > 0

(* ------------------------ the emission frame --------------------------- *)

\* C25: a particle emitted during an update, newly constructed or taken from
\* the pool, has age 0 and normalizedAge 0 when the update returns (the
\* emitted particles are the last ones of the live array).
C25_EmittedIsNewborn ==
    [][ShownUpdateStep =>
          \A j \in DOMAIN particles' :
              j > Len(particles') - (emitted' - emitted)
                  => /\ particles'[j].age = 0
                     /\ particles'[j].normalizedAge = Fraction(0, 1)]_vars

\* C25 witness: time has passed, the particle emitted last is newborn beside
\* an older live one, and more particles were emitted than the system holds:
\* one was taken from the pool after an earlier life.
C25_Witness ==
    /\ lastOp = "update" /\ totalDt > 0 /\ emitted > Held
    /\ Len(particles) >= 2
    /\ particles[Len(particles)].age = 0
    /\ particles[Len(particles)].normalizedAge = Fraction(0, 1)
    /\ particles[1].age > 0

(* --------------------------- the transform ----------------------------- *)

\* The step is an update that emits.
EmittingStep == ShownUpdateStep /\ emitted' > emitted

\* C26: every emission transforms by modelMatrix * emitterModelMatrix for
\* the values current at that update; the two matrices are multiplied only
\* in an update that emits while the dirty flag is set (and the combined
\* matrix changes in no other step); assigning a matrix equal to the stored
\* one leaves the dirty flag as it is, assigning another one sets it.
C26_CombinedMatrixIsLazy ==
    [][/\ EmittingStep =>
             /\ transformedBy' = Matrix4Multiply(modelMatrix, emitterModelMatrix)
             /\ combinedMatrix' = transformedBy'
       /\ (multiplied' # multiplied \/ combinedMatrix' # combinedMatrix) =>
             /\ EmittingStep /\ matrixDirty /\ ~matrixDirty'
             /\ multiplied' = multiplied + 1
       /\ lastOp' = "modelMatrix" =>
             matrixDirty' = (matrixDirty \/ modelMatrix' # modelMatrix)
       /\ lastOp' = "emitterModelMatrix" =>
             matrixDirty' = (matrixDirty \/
                                emitterModelMatrix' # emitterModelMatrix)]_vars

\* C26 witness: the matrices were multiplied a second time, after an
\* assignment, and the last emission transformed by Scale * Swap, which is
\* not Swap * Scale.
C26_Witness ==
    /\ lastOp = "update" /\ multiplied = 2 /\ ~matrixDirty /\ assigned > 0
    /\ modelMatrix = Scale /\ emitterModelMatrix = Swap
    /\ transformedBy = <<0, 2, 1, 0>>
    /\ transformedBy # Matrix4Multiply(Swap, Scale)

(* ------------------------- the periodic shrink ------------------------- *)

\* The index freeParticlePool starts to remove at, computed from the pool and
\* the live array as the step leaves them.
ShrinkStart ==
    Len(particlePool')
        - Max(particleEstimate' - Len(particles') - Len(particlePool'), 0)

C28_LiveAndPoolDisjoint ==
    LET held == particles \o particlePool
    IN  \A i, j \in DOMAIN held : held[i].id = held[j].id => i = j

\* C28 witness: an update retired one particle into the pool, kept another
\* live and emitted a particle taken from the pool.
C28_Witness ==
    /\ lastOp = "update" /\ emitted > Held
    /\ Len(particlePool) >= 1 /\ Len(particles) >= 2
    /\ \E j \in DOMAIN particlePool : particlePool[j].age > particlePool[j].life

(* ------------------------- the simulation pass ------------------------- *)

\* C29: in one update every particle that was live at its start is advanced
\* by dt exactly once: when the update returns it is live with its age dt
\* larger if that age is within its life; otherwise it is in the pool with
\* its age dt larger, or was emitted anew by the same update (age 0).
C29_AdvancedExactlyOnce ==
    [][ShownUpdateStep =>
          \A i \in DOMAIN particles :
              LET age == particles[i].age + StepDt
                  live == {j \in DOMAIN particles' :
                              particles'[j].id = particles[i].id}
                  pooled == {j \in DOMAIN particlePool' :
                                particlePool'[j].id = particles[i].id}
              IN  IF age <= particles[i].life
                  THEN /\ pooled = {}
                       /\ \E j \in live : particles'[j].age = age
                  ELSE \/ /\ live = {}
                          /\ \E j \in pooled : particlePool'[j].age = age
                       \/ /\ pooled = {}
                          /\ \E j \in live : particles'[j].age = 0]_vars

\* C29 witness: time has passed, a particle has been retired, and a live
\* particle stands in the live array ahead of an older one that was emitted
\* before it: the removal moved it from the end into the freed slot, and it
\* has aged since it was emitted.
C29_Witness ==
    /\ lastOp = "update" /\ show /\ totalDt > 0
    /\ \E j \in DOMAIN particlePool : particlePool[j].age > particlePool[j].life
    /\ Len(particles) >= 2
    /\ 0 < particles[1].age /\ particles[1].age < particles[2].age

(* ----------------------------- visibility ------------------------------ *)

\* The billboard of particle p is in the collection with show = visible.
Shows(p, visible) ==
    /\ p.billboard \in DOMAIN billboardCollection.show
    /\ billboardCollection.show[p.billboard] = visible

\* C30: after every update call every particle in the live array has a
\* billboard with show = true and every particle in the pool has a billboard
\* with show = false.
C30_VisibilityMatchesMembership ==
    lastOp = "update" =>
        /\ \A i \in DOMAIN particles : Shows(particles[i], TRUE)
        /\ \A j \in DOMAIN particlePool : Shows(particlePool[j], FALSE)

\* C30 witness: after an update there is a live particle, a pooled particle
\* that was retired and a pooled particle that was never emitted.
C30_Witness ==
    /\ lastOp = "update" /\ Len(particles) >= 1
    /\ \E j \in DOMAIN particlePool : particlePool[j].age > particlePool[j].life
    /\ \E j \in DOMAIN particlePool : particlePool[j].life = MaxValue

(* --------------------------- elapsed time ------------------------------ *)

\* C31: in a looping system with finite lifetime L, after every update call
\* 0 <= currentTime <= L.
C31_ElapsedWithinLifetime ==
    (loop /\ FiniteLifetime /\ lastOp = "update") =>
        (0 <= currentTime /\ currentTime <= lifetime)

\* C31 witness: after a wrap, an update has left elapsed time equal to L.
C31_Witness ==
    /\ loop /\ FiniteLifetime /\ lastOp = "update" /\ show
    /\ wraps >= 1 /\ currentTime = lifetime

(* ------------------------------ hiding --------------------------------- *)

\* C32: an update of a hidden system does not record the frame time, and an
\* update of a shown system uses as dt the whole time since the last update
\* that ran while shown, whatever calls were made while hidden in between:
\* that dt is added to elapsed time and to the age of every live particle
\* (which stays live if that age is within its life, and is retired
\* otherwise).
C32_HiddenIntervalIsAdded ==
    [][/\ (lastOp' = "update" /\ ~show) => previousTime' = previousTime
       /\ (ShownUpdateStep /\ shownTime # NoTime) =>
             LET dt == Max(lastTime' - shownTime, 0)
             IN  /\ totalDt' = totalDt + dt
                 /\ currentTime' = currentTime + dt
                 /\ \A i \in DOMAIN particles :
                        LET age == particles[i].age + dt
                        IN  IF age <= particles[i].life
                            THEN \E j \in DOMAIN particles' :
                                     /\ particles'[j].id = particles[i].id
                                     /\ particles'[j].age = age
                            ELSE \A j \in DOMAIN particles' :
                                     particles'[j].id = particles[i].id
                                         => particles'[j].age = 0]_vars

\* C32 witness: the last update ran shown and was the first after update
\* calls made while hidden, at a later frame time than the shown update
\* before them; it found a live particle and aged it by the time since that
\* shown update, which is all the time that passed since the first update.
C32_Witness ==
    /\ lastOp = "update" /\ show /\ resumed
    /\ totalDt = lastTime /\ totalDt >= 2
    /\ \E i \in DOMAIN particles : particles[i].age >= 1

(* --------------------------- the first frames -------------------------- *)

\* C33: the first update call after construction has dt = 0, emits no
\* particle and leaves elapsed time at 0; no burst (their trigger times are
\* >= 0) fires before the third update call.
C33_NoBurstBeforeThirdUpdate ==
    [][/\ (lastOp' = "update" /\ calls = 0) =>
             /\ totalDt' = 0 /\ currentTime' = 0
             /\ emitted' = emitted /\ particles' = <<>>
       /\ fired' # fired => calls >= 2]_vars

\* C33 witness: a burst with trigger time 0 has fired in the third update
\* call.
C33_Witness ==
    /\ lastOp = "update" /\ calls = 3
    /\ Len(bursts) = 1 /\ bursts[1].time = 0 /\ fired[1] = 1 /\ emitted >= 1

(* ----------------------- the absent emitter ---------------------------- *)

\* C34: an update of a system without emitter that is not complete emits
\* nothing, yet marks every burst whose trigger time has passed as fired and
\* advances carryOver by dt * emissionRate (less the whole particles);
\* assigning an emitter takes nothing of this back, and a burst marked fired
\* does not fire again before the next wrap, so it is not emitted after an
\* emitter has been assigned in the same cycle.
C34_AbsentEmitterConsumesSchedule ==
    [][/\ (ShownUpdateStep /\ ~emitter /\ ~isComplete) =>
             /\ emitted' = emitted
             /\ \A i \in DOMAIN bursts :
                    Passed(i) => /\ fired'[i] = fired[i] + 1
                                 /\ wraps' = wraps => bursts'[i].complete
             /\ LET v == Mod(StepDt, lifetime) * emissionRate
                IN  /\ (carryOver + v - carryOver') % TicksPerSecond = 0
                    /\ carryOver' <= carryOver + v
                    /\ carryOver' <= TicksPerSecond
       /\ lastOp' = "emitter" =>
             bursts' = bursts /\ fired' = fired /\ carryOver' = carryOver
       /\ ShownUpdateStep =>
             \A i \in DOMAIN bursts :
                 bursts[i].complete => fired'[i] = fired[i]]_vars

\* C34 witness: a system whose only source of particles is one burst got its
\* emitter back after the burst was marked fired, and has been updated with
\* elapsed time advancing since, in the same cycle: it never emitted.
C34_Witness ==
    /\ lastOp = "update" /\ show /\ emitter /\ assigned = 2
    /\ emissionRate = 0 /\ Len(bursts) = 1 /\ bursts[1].minimum > 0
    /\ fired[1] = 1 /\ bursts[1].complete /\ wraps = 0 /\ ~isComplete
    /\ emitted = 0 /\ currentTime >= 2 * TicksPerSecond

====
